---- MODULE Spec2Model ----
(***************************************************************************)
(* pmpmc: a priority multi-producer multi-consumer channel (src/src/lib.rs) *)
(*                                                                         *)
(* One Inner { queue: Mutex<Vec<T>> } is shared by every Sender and        *)
(* Receiver handle.  Each thread of the model owns a Sender clone and a    *)
(* Receiver clone of the channel made by pmpmc(), and calls send,          *)
(* recv_greatest and recv_least in any order.  The steps of a call are the *)
(* steps of its code: lock().expect(..), then push / sort / reverse / pop, *)
(* then the drop of the MutexGuard when the call returns.                  *)
(*                                                                         *)
(* An item is a record compared by its field `matters` alone (as           *)
(* tests::TestStruct is).  Its field `id` is never compared: it tells      *)
(* apart items that compare equal, and is the rank of the item's push      *)
(* among all the pushes, so that it records the order in which the sends   *)
(* completed.                                                              *)
(***************************************************************************)
EXTENDS Integers, Sequences, FiniteSets

\* ---------------------------------------------------------------- bounds
NumThreads == 2
MaxKey == 2
MaxSends == 3
MaxFairSends == 2
MaxRoots == 2
MaxHandles == 3
MaxHandleSends == 2

Threads == 1..NumThreads
Keys == 1..MaxKey

VARIABLES
    queue,      \* Inner.queue: the Vec<T> behind the Mutex
    lock,       \* the Mutex: 0 when free, else the thread holding the guard
    poisoned,   \* the Mutex's poison flag
    pc,         \* each thread's position in the call it is making
    op,         \* each thread's current call
    arg,        \* the key (`matters`) of the item a thread is sending, 0 if none
    ret,        \* the Option<T> a recv_* is about to return
    sent,       \* history: the items pushed, in the order the pushes happened
    received,   \* history: the items popped, in the order the pops happened
    nsends,     \* the number of send calls made so far
    entry,      \* history: the Vec as the thread holding the lock found it
    drainFrom,  \* history: how many pops had returned an item at the latest push
    drainDir,   \* history: which recv_* returned the items popped since then
    \* the handles and the Inner blocks they share (SpecHandles)
    inners,     \* each Inner ever allocated: whether it lives, its Vec, its poison
    handles,    \* how many live handles there are of each kind, origin and Inner
    nroots,     \* the number of pmpmc() calls made so far
    nsent       \* history: how many items were sent on the channel of each pmpmc() call

hist == <<entry, drainFrom, drainDir>>

\* the calls of the threads on one channel, step by step
tvars == <<queue, lock, poisoned, pc, op, arg, ret, sent, received, nsends,
           entry, drainFrom, drainDir>>

\* the handles and their Inner blocks
hvars == <<inners, handles, nroots, nsent>>

vars == <<tvars, hvars>>

\* ------------------------------------------------------ the item type T
Item(k, i) == [matters |-> k, id |-> i]

\* mutant of Le: the comparison looks at the field that does not matter
Le_ById(a, b) == a.id <= b.id

\* mutant of Le: the comparison is the wrong way round
Le_Reversed(a, b) == a.matters >= b.matters

\* Ord::cmp of the item type: `matters` decides, nothing else is looked at
Le(a, b) == a.matters <= b.matters

Eq(a, b) == a.matters = b.matters

\* Option<T>
None == <<>>

Some(x) == <<x>>

Range(s) == {s[i] : i \in 1..Len(s)}

\* ------------------------------------------------------- Vec operations
\* one insertion step of a stable sort: x goes after every element that
\* does not compare greater than it
RECURSIVE InsertSorted(_, _)
InsertSorted(s, x) ==
    IF s = <<>> THEN <<x>>
    ELSE IF Le(s[Len(s)], x) THEN Append(s, x)
    ELSE Append(InsertSorted(SubSeq(s, 1, Len(s) - 1), x), s[Len(s)])

\* mutant of VecSort: the sort is forgotten
VecSort_NoSort(s) == s

\* mutant of VecSort: the sort is descending
RECURSIVE InsertSorted_Desc(_, _)
InsertSorted_Desc(s, x) ==
    IF s = <<>> THEN <<x>>
    ELSE IF Le(x, s[Len(s)]) THEN Append(s, x)
    ELSE Append(InsertSorted_Desc(SubSeq(s, 1, Len(s) - 1), x), s[Len(s)])

RECURSIVE VecSort_Desc(_)
VecSort_Desc(s) ==
    IF s = <<>> THEN <<>>
    ELSE InsertSorted_Desc(VecSort_Desc(SubSeq(s, 1, Len(s) - 1)), s[Len(s)])

\* Vec::sort: ascending and stable (equal elements keep their order)
RECURSIVE VecSort(_)
VecSort(s) ==
    IF s = <<>> THEN <<>>
    ELSE InsertSorted(VecSort(SubSeq(s, 1, Len(s) - 1)), s[Len(s)])

\* mutant of VecReverse: the reverse is forgotten
VecReverse_None(s) == s

\* Vec::reverse
VecReverse(s) == [i \in 1..Len(s) |-> s[Len(s) + 1 - i]]

\* mutant of VecPopValue: the first element is taken for the last
VecPopValue_Front(s) == IF s = <<>> THEN None ELSE Some(s[1])

\* Vec::pop: the Option returned
VecPopValue(s) == IF s = <<>> THEN None ELSE Some(s[Len(s)])

\* mutant of VecPopRest: the last element is read and not removed
VecPopRest_Keep(s) == s

\* Vec::pop: the Vec left
VecPopRest(s) == IF s = <<>> THEN <<>> ELSE SubSeq(s, 1, Len(s) - 1)

\* mutant of VecPush: a push on a Vec of two elements or more is dropped
VecPush_Bounded(s, x) == IF Len(s) >= 2 THEN s ELSE Append(s, x)

\* Vec::push
VecPush(s, x) == Append(s, x)

\* the orders a sort that panics half way may leave the Vec in: every
\* element is still there, in an order that is not specified
Reorderings(s) ==
    {[i \in 1..Len(s) |-> s[p[i]]] :
        p \in {f \in [1..Len(s) -> 1..Len(s)] :
                \A i, j \in 1..Len(s) : i # j => f[i] # f[j]}}

\* the values of T the model sends
Items == {Item(k, i) : k \in Keys, i \in 1..MaxSends}

\* the shape of the state: Inner { queue: Mutex<Vec<T>> }, the calls in
\* progress and the histories
TypeOK ==
    /\ queue \in Seq(Items)
    /\ lock \in {0} \cup Threads
    /\ poisoned \in BOOLEAN
    /\ pc \in [Threads -> {"idle", "lock", "push", "sort", "reverse", "pop",
                           "unlock", "panicked"}]
    /\ op \in [Threads -> {"none", "send", "recv_greatest", "recv_least"}]
    /\ arg \in [Threads -> {0} \cup Keys]
    /\ \A t \in Threads : ret[t] = None \/ (Len(ret[t]) = 1 /\ ret[t][1] \in Items)
    /\ sent \in Seq(Items)
    /\ received \in Seq(Items)
    /\ nsends \in 0..MaxSends
    /\ entry \in Seq(Items)
    /\ drainFrom \in 0..MaxSends
    /\ drainDir \in {"none", "recv_greatest", "recv_least", "mixed"}
    /\ \A t \in Threads : lock = t <=> pc[t] \in {"push", "sort", "reverse", "pop", "unlock"}

\* --------------------------------------------- the handles, the Inners
\* the pmpmc() calls, by rank
Roots == 1..MaxRoots

\* the Inner blocks an Arc::new may allocate
InnerIds == 1..MaxHandles

\* a Sender or a Receiver: the pmpmc() call it comes from (by the call's
\* own handles or by clones of them) and the Inner its Arc points to
HandleClasses == [kind : {"sender", "receiver"}, root : Roots, inner : InnerIds]

\* an Inner not allocated yet
NoInner == [state |-> "unused", queue |-> <<>>, poisoned |-> FALSE]

\* Inner { queue: Mutex::new(Vec::new()) }
NewInner == [state |-> "live", queue |-> <<>>, poisoned |-> FALSE]

\* an Inner whose last Arc was dropped: the Vec and its items are gone
FreedInner == [state |-> "freed", queue |-> <<>>, poisoned |-> FALSE]

\* ------------------------------------------------------------- pmpmc()
Init ==
    /\ queue = <<>>
    /\ lock = 0
    /\ poisoned = FALSE
    /\ pc = [t \in Threads |-> "idle"]
    /\ op = [t \in Threads |-> "none"]
    /\ arg = [t \in Threads |-> 0]
    /\ ret = [t \in Threads |-> None]
    /\ sent = <<>>
    /\ received = <<>>
    /\ nsends = 0
    /\ entry = <<>>
    /\ drainFrom = 0
    /\ drainDir = "none"
    /\ inners = [i \in InnerIds |-> NoInner]
    /\ handles = [c \in HandleClasses |-> 0]
    /\ nroots = 0
    /\ nsent = [r \in Roots |-> 0]

\* ------------------------------------------------------------ the calls
\* a thread calls tx.send(item)
CallSend(t) ==
    /\ pc[t] = "idle"
    /\ nsends < MaxSends
    /\ \E k \in Keys :
        arg' = [arg EXCEPT ![t] = k]
    /\ nsends' = nsends + 1
    /\ op' = [op EXCEPT ![t] = "send"]
    /\ pc' = [pc EXCEPT ![t] = "lock"]
    /\ UNCHANGED <<hvars, queue, lock, poisoned, ret, sent, received, hist>>

\* a thread calls rx.recv_greatest() or rx.recv_least()
CallRecv(t) ==
    /\ pc[t] = "idle"
    /\ \E o \in {"recv_greatest", "recv_least"} :
        op' = [op EXCEPT ![t] = o]
    /\ pc' = [pc EXCEPT ![t] = "lock"]
    /\ UNCHANGED <<hvars, queue, lock, poisoned, arg, ret, sent, received, nsends, hist>>

\* mutant of LockOk: the poison is ignored (into_inner on the PoisonError)
LockOk_IgnorePoison(t) ==
    /\ pc[t] = "lock"
    /\ lock = 0
    /\ lock' = t
    /\ pc' = [pc EXCEPT ![t] = IF op[t] = "send" THEN "push" ELSE "sort"]
    /\ entry' = queue
    /\ UNCHANGED <<hvars, queue, poisoned, op, arg, ret, sent, received, nsends,
                   drainFrom, drainDir>>

\* mutant of LockOk: the lock is taken whether it is free or not
LockOk_NoExclusion(t) ==
    /\ pc[t] = "lock"
    /\ ~poisoned
    /\ lock' = t
    /\ pc' = [pc EXCEPT ![t] = IF op[t] = "send" THEN "push" ELSE "sort"]
    /\ entry' = queue
    /\ UNCHANGED <<hvars, queue, poisoned, op, arg, ret, sent, received, nsends,
                   drainFrom, drainDir>>

\* queue.lock().expect("Poison error") on a sound Mutex: blocks until the
\* Mutex is free, then holds the guard
LockOk(t) ==
    /\ pc[t] = "lock"
    /\ lock = 0
    /\ ~poisoned
    /\ lock' = t
    /\ pc' = [pc EXCEPT ![t] = IF op[t] = "send" THEN "push" ELSE "sort"]
    /\ entry' = queue
    /\ UNCHANGED <<hvars, queue, poisoned, op, arg, ret, sent, received, nsends,
                   drainFrom, drainDir>>

\* queue.lock().expect("Poison error") on a poisoned Mutex: lock() gives
\* Err(PoisonError), expect panics, the guard inside the error is dropped
LockPoisoned(t) ==
    /\ pc[t] = "lock"
    /\ lock = 0
    /\ poisoned
    /\ pc' = [pc EXCEPT ![t] = "panicked"]
    /\ UNCHANGED <<hvars, queue, lock, poisoned, op, arg, ret, sent, received, nsends, hist>>

\* send: .push(item)
Push(t) ==
    /\ pc[t] = "push"
    /\ queue' = VecPush(queue, Item(arg[t], Len(sent) + 1))
    /\ sent' = Append(sent, Item(arg[t], Len(sent) + 1))
    /\ pc' = [pc EXCEPT ![t] = "unlock"]
    /\ drainFrom' = Len(received)
    /\ drainDir' = "none"
    /\ UNCHANGED <<hvars, lock, poisoned, op, arg, ret, received, nsends, entry>>

\* recv_greatest, recv_least: queue.sort()
Sort(t) ==
    /\ pc[t] = "sort"
    /\ queue' = VecSort(queue)
    /\ pc' = [pc EXCEPT ![t] = IF op[t] = "recv_least" THEN "reverse" ELSE "pop"]
    /\ UNCHANGED <<hvars, lock, poisoned, op, arg, ret, sent, received, nsends, hist>>

\* queue.sort() when T's cmp panics: the thread unwinds while it holds the
\* guard, whose drop poisons the Mutex and unlocks it.  A sort of fewer
\* than two elements compares nothing.
SortPanic(t) ==
    /\ pc[t] = "sort"
    /\ Len(queue) >= 2
    /\ queue' \in Reorderings(queue)
    /\ poisoned' = TRUE
    /\ lock' = 0
    /\ pc' = [pc EXCEPT ![t] = "panicked"]
    /\ entry' = <<>>
    /\ UNCHANGED <<hvars, op, arg, ret, sent, received, nsends, drainFrom, drainDir>>

\* recv_least: queue.reverse()
Reverse(t) ==
    /\ pc[t] = "reverse"
    /\ queue' = VecReverse(queue)
    /\ pc' = [pc EXCEPT ![t] = "pop"]
    /\ UNCHANGED <<hvars, lock, poisoned, op, arg, ret, sent, received, nsends, hist>>

\* what Pop does to the variables, given the Vec operations
PopWith(t) ==
    /\ ret' = [ret EXCEPT ![t] = VecPopValue(queue)]
    /\ queue' = VecPopRest(queue)
    /\ received' = received \o VecPopValue(queue)
    /\ pc' = [pc EXCEPT ![t] = "unlock"]
    /\ drainDir' = IF queue = <<>> THEN drainDir
                   ELSE IF drainDir \in {"none", op[t]} THEN op[t]
                   ELSE "mixed"
    /\ UNCHANGED <<hvars, lock, poisoned, op, arg, sent, nsends, entry, drainFrom>>

\* mutant of Pop: pop().unwrap(), which panics on an empty Vec while the
\* guard is held
Pop_Unwrap(t) ==
    /\ pc[t] = "pop"
    /\ IF queue = <<>>
       THEN /\ poisoned' = TRUE
            /\ lock' = 0
            /\ pc' = [pc EXCEPT ![t] = "panicked"]
            /\ entry' = <<>>
            /\ UNCHANGED <<hvars, queue, op, arg, ret, sent, received, nsends,
                           drainFrom, drainDir>>
       ELSE PopWith(t)

\* mutant of Pop: a receive that waits for an item
Pop_Blocking(t) ==
    /\ pc[t] = "pop"
    /\ queue # <<>>
    /\ PopWith(t)

\* recv_greatest, recv_least: queue.pop()
Pop(t) ==
    /\ pc[t] = "pop"
    /\ PopWith(t)

\* mutant of Return: the guard is leaked (mem::forget), the Mutex stays locked
Return_KeepLock(t) ==
    /\ pc[t] = "unlock"
    /\ pc' = [pc EXCEPT ![t] = "idle"]
    /\ op' = [op EXCEPT ![t] = "none"]
    /\ arg' = [arg EXCEPT ![t] = 0]
    /\ ret' = [ret EXCEPT ![t] = None]
    /\ entry' = <<>>
    /\ UNCHANGED <<hvars, queue, lock, poisoned, sent, received, nsends, drainFrom, drainDir>>

\* the call returns: the MutexGuard is dropped, the caller has the result
Return(t) ==
    /\ pc[t] = "unlock"
    /\ lock' = 0
    /\ pc' = [pc EXCEPT ![t] = "idle"]
    /\ op' = [op EXCEPT ![t] = "none"]
    /\ arg' = [arg EXCEPT ![t] = 0]
    /\ ret' = [ret EXCEPT ![t] = None]
    /\ entry' = <<>>
    /\ UNCHANGED <<hvars, queue, poisoned, sent, received, nsends, drainFrom, drainDir>>

Next ==
    \E t \in Threads :
        \/ CallSend(t)
        \/ CallRecv(t)
        \/ LockOk(t)
        \/ LockPoisoned(t)
        \/ Push(t)
        \/ Sort(t)
        \/ SortPanic(t)
        \/ Reverse(t)
        \/ Pop(t)
        \/ Return(t)

Spec == Init /\ [][Next]_vars

\* ====================================================================
\* The handles: pmpmc(), clone, drop, and the calls made through them.
\* A call is one step here: it runs under the lock of its Inner from its
\* first access to the Vec to its last (C11).
\* ====================================================================
RECURSIVE SumOver(_, _)
SumOver(f, S) ==
    IF S = {} THEN 0
    ELSE LET c == CHOOSE x \in S : TRUE IN f[c] + SumOver(f, S \ {c})

\* the number of live handles
NumHandles == SumOver(handles, HandleClasses)

\* Arc::strong_count of Inner i
StrongCount(h, i) == SumOver(h, {c \in HandleClasses : c.inner = i})

\* the number of items sent through handles so far
NumHandleSends == SumOver(nsent, Roots)

Live(c) == handles[c] > 0

\* mutant of Pmpmc: the two handles are bound to an Inner that lives already
Pmpmc_Shared ==
    /\ nroots < MaxRoots
    /\ NumHandles + 2 <= MaxHandles
    /\ \E i \in InnerIds :
        /\ IF \E j \in InnerIds : inners[j].state = "live"
           THEN inners[i].state = "live"
           ELSE inners[i].state = "unused" /\ \A j \in 1..(i - 1) : inners[j].state # "unused"
        /\ inners' = [inners EXCEPT ![i] = IF @.state = "live" THEN @ ELSE NewInner]
        /\ handles' = [handles EXCEPT
                ![[kind |-> "sender", root |-> nroots + 1, inner |-> i]] = @ + 1,
                ![[kind |-> "receiver", root |-> nroots + 1, inner |-> i]] = @ + 1]
    /\ nroots' = nroots + 1
    /\ UNCHANGED <<tvars, nsent>>

\* pmpmc(): a new Inner with an empty Vec, a Sender and a Receiver on it
Pmpmc ==
    /\ nroots < MaxRoots
    /\ NumHandles + 2 <= MaxHandles
    /\ \E i \in InnerIds :
        /\ inners[i].state = "unused"
        /\ \A j \in 1..(i - 1) : inners[j].state # "unused"
        /\ inners' = [inners EXCEPT ![i] = NewInner]
        /\ handles' = [handles EXCEPT
                ![[kind |-> "sender", root |-> nroots + 1, inner |-> i]] = @ + 1,
                ![[kind |-> "receiver", root |-> nroots + 1, inner |-> i]] = @ + 1]
    /\ nroots' = nroots + 1
    /\ UNCHANGED <<tvars, nsent>>

\* mutant of CloneHandle: the clone gets an Inner of its own, with a copy
\* of the Vec
CloneHandle_DeepCopy(c) ==
    /\ Live(c)
    /\ NumHandles < MaxHandles
    /\ \E i \in InnerIds :
        /\ inners[i].state = "unused"
        /\ \A j \in 1..(i - 1) : inners[j].state # "unused"
        /\ inners' = [inners EXCEPT ![i] = inners[c.inner]]
        /\ handles' = [handles EXCEPT ![[c EXCEPT !.inner = i]] = @ + 1]
    /\ UNCHANGED <<tvars, nroots, nsent>>

\* Sender::clone, Receiver::clone: Arc::clone(&self.inner), one more handle
\* of the same kind on the same Inner
CloneHandle(c) ==
    /\ Live(c)
    /\ NumHandles < MaxHandles
    /\ handles' = [handles EXCEPT ![c] = @ + 1]
    /\ UNCHANGED <<tvars, inners, nroots, nsent>>

\* mutant of DropHandle: the drop of the last Sender disconnects the channel
\* and discards what is pending
DropHandle_Disconnect(c) ==
    /\ Live(c)
    /\ handles' = [handles EXCEPT ![c] = @ - 1]
    /\ inners' = [inners EXCEPT ![c.inner] =
            IF StrongCount(handles', c.inner) = 0 THEN FreedInner
            ELSE IF c.kind = "sender" /\ handles'[c] = 0 THEN [@ EXCEPT !.queue = <<>>]
            ELSE @]
    /\ UNCHANGED <<tvars, nroots, nsent>>

\* a Sender or a Receiver is dropped: its Arc is dropped, and the Inner
\* with it when it was the last Arc on it
DropHandle(c) ==
    /\ Live(c)
    /\ handles' = [handles EXCEPT ![c] = @ - 1]
    /\ inners' = [inners EXCEPT ![c.inner] =
            IF StrongCount(handles', c.inner) = 0 THEN FreedInner ELSE @]
    /\ UNCHANGED <<tvars, nroots, nsent>>

\* Sender::send through a Sender of class c: lock, push, unlock; on a
\* poisoned Inner lock().expect("Poison error") panics and nothing changes
HandleSend(c) ==
    /\ Live(c)
    /\ c.kind = "sender"
    /\ ~inners[c.inner].poisoned
    /\ NumHandleSends < MaxHandleSends
    /\ \E k \in Keys :
        inners' = [inners EXCEPT ![c.inner].queue = VecPush(@, Item(k, nsent[c.root] + 1))]
    /\ nsent' = [nsent EXCEPT ![c.root] = @ + 1]
    /\ UNCHANGED <<tvars, handles, nroots>>

\* the Vec a recv_* pops from: sorted, and reversed for recv_least
Arranged(q, o) == IF o = "recv_least" THEN VecReverse(VecSort(q)) ELSE VecSort(q)

\* what a recv_* through a Receiver of class c returns
HandleRecvValue(c, o) == VecPopValue(Arranged(inners[c.inner].queue, o))

\* Receiver::recv_greatest, Receiver::recv_least through a Receiver of
\* class c: lock, sort, (reverse,) pop, unlock; on a poisoned Inner
\* lock().expect("Poison error") panics and nothing changes
HandleRecv(c) ==
    /\ Live(c)
    /\ c.kind = "receiver"
    /\ ~inners[c.inner].poisoned
    /\ \E o \in {"recv_greatest", "recv_least"} :
        inners' = [inners EXCEPT ![c.inner].queue = VecPopRest(Arranged(@, o))]
    /\ UNCHANGED <<tvars, handles, nroots, nsent>>

\* a recv_* in whose sort T's cmp panics: the Mutex of the Inner is
\* poisoned, the Vec is left in some order
HandleRecvPanic(c) ==
    /\ Live(c)
    /\ c.kind = "receiver"
    /\ ~inners[c.inner].poisoned
    /\ Len(inners[c.inner].queue) >= 2
    /\ \E q \in Reorderings(inners[c.inner].queue) :
        inners' = [inners EXCEPT ![c.inner].queue = q, ![c.inner].poisoned = TRUE]
    /\ UNCHANGED <<tvars, handles, nroots, nsent>>

NextHandles ==
    \/ Pmpmc
    \/ \E c \in HandleClasses :
        \/ CloneHandle(c)
        \/ DropHandle(c)
        \/ HandleSend(c)
        \/ HandleRecv(c)
        \/ HandleRecvPanic(c)

SpecHandles == Init /\ [][NextHandles]_vars

\* ====================================================================
\* The claims
\* ====================================================================
Recvs == {"recv_greatest", "recv_least"}

\* how many times x stands in the sequence s
Count(s, x) == Cardinality({i \in 1..Len(s) : s[i] = x})

\* every item the histories or the store know of
Universe == Range(sent) \cup Range(received) \cup Range(queue)

\* the Vec `after` is the Vec `before` with one occurrence of x taken out
MinusOne(before, after, x) ==
    /\ Len(after) = Len(before) - 1
    /\ \A y \in Range(before) \cup Range(after) :
        Count(after, y) = Count(before, y) - (IF y = x THEN 1 ELSE 0)

\* thread t has computed the result of the recv o and not yet returned
Done(t, o) == pc[t] = "unlock" /\ op[t] = o

\* the items popped since the latest push
Drain == SubSeq(received, drainFrom + 1, Len(received))

\* ---------------------------------------------------------------- C1
\* C1: whenever no thread is inside a critical section, the store holds,
\* as a multiset, the items sent minus the items received: nothing is
\* lost, duplicated or invented; when the store is empty again as many
\* items were received as were sent.
C1_Conservation ==
    lock = 0 =>
        /\ \A x \in Universe :
            Count(queue, x) + Count(received, x) = Count(sent, x)
        /\ (queue = <<>> => Len(received) = Len(sent))

\* three items sent by interleaved calls, all of them drained
C1_Witness ==
    /\ lock = 0
    /\ queue = <<>>
    /\ Len(sent) >= 3
    /\ Len(received) = Len(sent)
    /\ \A t \in Threads : pc[t] = "idle"

\* ---------------------------------------------------------------- C2
\* C2: a recv_greatest returns None exactly when it found the store
\* empty; otherwise it returns an item of the store that no item of the
\* store compares greater than, and takes exactly that item out.
C2_RecvGreatest ==
    \A t \in Threads : Done(t, "recv_greatest") =>
        /\ (ret[t] = None) <=> (entry = <<>>)
        /\ ret[t] = None => queue = <<>>
        /\ ret[t] # None =>
            /\ ret[t][1] \in Range(entry)
            /\ \A y \in Range(entry) : Le(y, ret[t][1])
            /\ MinusOne(entry, queue, ret[t][1])

\* a recv_greatest after a recv_least, on a store whose last element was
\* not the greatest
C2_Witness ==
    \E t \in Threads :
        /\ Done(t, "recv_greatest")
        /\ ret[t] # None
        /\ drainDir = "mixed"
        /\ Len(entry) >= 2
        /\ \E y \in Range(entry) : ~Le(y, entry[Len(entry)])

\* ---------------------------------------------------------------- C3
\* C3: a recv_least returns None exactly when it found the store empty;
\* otherwise it returns an item of the store that no item of the store
\* compares less than, and takes exactly that item out.
C3_RecvLeast ==
    \A t \in Threads : Done(t, "recv_least") =>
        /\ (ret[t] = None) <=> (entry = <<>>)
        /\ ret[t] = None => queue = <<>>
        /\ ret[t] # None =>
            /\ ret[t][1] \in Range(entry)
            /\ \A y \in Range(entry) : Le(ret[t][1], y)
            /\ MinusOne(entry, queue, ret[t][1])

\* a recv_least, after an earlier receive, on a store whose first element
\* was not the least
C3_Witness ==
    \E t \in Threads :
        /\ Done(t, "recv_least")
        /\ ret[t] # None
        /\ Len(received) >= 2
        /\ Len(entry) >= 2
        /\ \E y \in Range(entry) : ~Le(entry[1], y)

\* ---------------------------------------------------------------- C4
NonIncreasing(s) == \A i \in 1..(Len(s) - 1) : Le(s[i + 1], s[i])

NonDecreasing(s) == \A i \in 1..(Len(s) - 1) : Le(s[i], s[i + 1])

\* C4: the items popped since the latest push, when recv_greatest alone
\* popped them, come in non-increasing order, and when recv_least alone
\* popped them, in non-decreasing order; when nothing was popped before
\* the latest push and the store is empty again, they are all the items
\* sent.
C4_DrainOrder ==
    /\ drainDir = "recv_greatest" => NonIncreasing(Drain)
    /\ drainDir = "recv_least" => NonDecreasing(Drain)
    /\ (drainDir \in Recvs /\ drainFrom = 0 /\ queue = <<>>) =>
        /\ Len(Drain) = Len(sent)
        /\ \A x \in Range(sent) : Count(Drain, x) = Count(sent, x)

\* three items sent out of order, then drained one by one by recv_least
C4_Witness ==
    /\ drainDir = "recv_least"
    /\ drainFrom = 0
    /\ queue = <<>>
    /\ Len(Drain) = 3
    /\ ~Le(sent[1], sent[2])
    /\ ~Le(Drain[3], Drain[1])

\* ---------------------------------------------------------------- C5
\* C5: no item is returned twice, whichever receivers call: an item a
\* receiver is returning is the newest entry of the history of pops and
\* stands there once; when the store is drained, the items returned are
\* the items sent, each once.
C5_NoDoubleDelivery ==
    /\ \A x \in Universe : Count(received, x) <= 1
    /\ \A t \in Threads :
        (pc[t] = "unlock" /\ op[t] \in Recvs /\ ret[t] # None) =>
            /\ received # <<>>
            /\ ret[t][1] = received[Len(received)]
    /\ (queue = <<>> /\ lock = 0) =>
        /\ Range(received) = Range(sent)
        /\ Len(received) = Len(sent)

\* two receivers inside recv_greatest at once, one of them returning an
\* item while the other waits for the lock, after an earlier receive
C5_Witness ==
    \E t, u \in Threads :
        /\ t # u
        /\ Done(t, "recv_greatest")
        /\ ret[t] # None
        /\ pc[u] = "lock"
        /\ op[u] = "recv_greatest"
        /\ Len(received) >= 2
        /\ queue # <<>>

\* ---------------------------------------------------------------- C6
\* C6: a recv_* that finds the store empty changes nothing of the channel
\* on any of its steps (the store stays empty, the Mutex is not poisoned,
\* nothing is sent or received), returns None, and leaves the Mutex free.
C6_EmptyRecv ==
    [][\A t \in Threads :
        (lock = t /\ op[t] \in Recvs /\ entry = <<>>) =>
            /\ queue = <<>>
            /\ queue' = <<>>
            /\ poisoned' = poisoned
            /\ sent' = sent
            /\ received' = received
            /\ lock' \in {t, 0}
            /\ pc'[t] # "panicked"
            /\ pc'[t] = "unlock" => ret'[t] = None
            /\ pc'[t] = "idle" => lock' = 0]_vars

\* a recv_least returning None on a channel that was used and drained
C6_Witness ==
    \E t \in Threads :
        /\ Done(t, "recv_least")
        /\ entry = <<>>
        /\ ret[t] = None
        /\ Len(received) >= 1
        /\ Len(received) = Len(sent)

\* ---------------------------------------------------------------- C7
\* C7: among the pending items equal to the greatest, recv_greatest
\* returns the one whose send completed first.
C7_FifoGreatest ==
    \A t \in Threads :
        (Done(t, "recv_greatest") /\ ret[t] # None) =>
            \A y \in Range(entry) :
                Eq(y, ret[t][1]) => ret[t][1].id <= y.id

\* ---------------------------------------------------------------- C8
\* C8: among the pending items equal to the least, recv_least returns the
\* one whose send completed first.
C8_FifoLeast ==
    \A t \in Threads :
        (Done(t, "recv_least") /\ ret[t] # None) =>
            \A y \in Range(entry) :
                Eq(y, ret[t][1]) => ret[t][1].id <= y.id

\* ---------------------------------------------------------------- C9
\* C9: once the Mutex is poisoned it stays poisoned; the store, the items
\* sent and the items received never change again; the Mutex is never held
\* again; and all a thread can still do is start a call and panic in it.
C9_PoisonIsFinal ==
    [][poisoned =>
        /\ poisoned'
        /\ queue' = queue
        /\ sent' = sent
        /\ received' = received
        /\ lock = 0
        /\ lock' = 0
        /\ \A t \in Threads :
            \/ pc'[t] = pc[t]
            \/ pc[t] = "idle" /\ pc'[t] = "lock"
            \/ pc[t] = "lock" /\ pc'[t] = "panicked"]_vars

\* a sort panicked, and a send made after it panicked in its turn
C9_Witness ==
    \E t, u \in Threads :
        /\ t # u
        /\ poisoned
        /\ pc[t] = "panicked"
        /\ op[t] \in Recvs
        /\ pc[u] = "panicked"
        /\ op[u] = "send"

\* --------------------------------------------------------------- C10
\* the steps of a call that has started
ThreadStep(t) ==
    \/ LockOk(t)
    \/ LockPoisoned(t)
    \/ Push(t)
    \/ Sort(t)
    \/ SortPanic(t)
    \/ Reverse(t)
    \/ Pop(t)
    \/ Return(t)

InCall(t) == pc[t] \notin {"idle", "panicked"}

\* C10 (as stated): a thread inside a call can always take its next step,
\* whatever the other threads are doing.
C10_NeverWaits ==
    \A t \in Threads : InCall(t) => ENABLED ThreadStep(t)

\* C10 (amended): a thread inside a call can always take its next step,
\* unless it is at lock() while another thread holds the Mutex.
C10_WaitsOnlyForLock ==
    \A t \in Threads :
        (InCall(t) /\ ~(pc[t] = "lock" /\ lock # 0)) => ENABLED ThreadStep(t)

\* a recv_* about to pop from an empty store while a send waits for the lock
C10_Witness ==
    \E t, u \in Threads :
        /\ pc[t] = "pop"
        /\ queue = <<>>
        /\ pc[u] = "lock"
        /\ op[u] = "send"

\* --------------------------------------------------------------- C11
\* the positions of a call at which the caller holds the MutexGuard
Critical == {"push", "sort", "reverse", "pop", "unlock"}

\* C11: a thread is inside a critical section exactly when it holds the
\* lock, so at most one is; and at each sub-step of its call the store is
\* what the holder's own sub-steps made of the Vec it locked (pushed to;
\* sorted; sorted and reversed; popped), so no other thread has touched it
\* in between.
C11_AtomicSection ==
    /\ \A t \in Threads : (lock = t) <=> (pc[t] \in Critical)
    /\ Cardinality({t \in Threads : pc[t] \in Critical}) <= 1
    /\ \A t \in Threads : lock = t =>
        /\ pc[t] \in {"push", "sort"} => queue = entry
        /\ pc[t] = "reverse" =>
            /\ \A x \in Range(entry) \cup Range(queue) :
                Count(queue, x) = Count(entry, x)
            /\ \A i \in 1..(Len(queue) - 1) :
                queue[i].matters <= queue[i + 1].matters
        /\ pc[t] = "pop" =>
            /\ \A x \in Range(entry) \cup Range(queue) :
                Count(queue, x) = Count(entry, x)
            /\ \A i \in 1..(Len(queue) - 1) :
                IF op[t] = "recv_least"
                THEN queue[i].matters >= queue[i + 1].matters
                ELSE queue[i].matters <= queue[i + 1].matters
        /\ (pc[t] = "unlock" /\ op[t] = "send") =>
            /\ Len(queue) = Len(entry) + 1
            /\ SubSeq(queue, 1, Len(entry)) = entry
            /\ queue[Len(queue)].matters = arg[t]
        /\ (pc[t] = "unlock" /\ op[t] \in Recvs) =>
            IF ret[t] = None THEN queue = <<>> /\ entry = <<>>
            ELSE MinusOne(entry, queue, ret[t][1])

\* a recv_least between its sort and its reverse, holding the lock on a Vec
\* it has reordered, while another thread waits at lock() to send
C11_Witness ==
    \E t, u \in Threads :
        /\ lock = t
        /\ pc[t] = "reverse"
        /\ queue # entry
        /\ pc[u] = "lock"
        /\ op[u] = "send"

\* --------------------------------------------------------------- C12
\* the keys of the items of s, in the order of s
KeysOf(s) == [i \in 1..Len(s) |-> s[i].matters]

\* the keys of S in ascending order
RECURSIVE Ascending(_)
Ascending(S) ==
    IF S = {} THEN <<>>
    ELSE LET m == CHOOSE x \in S : \A y \in S : x <= y
         IN  <<m>> \o Ascending(S \ {m})

\* the keys of S in descending order
RECURSIVE Descending(_)
Descending(S) ==
    IF S = {} THEN <<>>
    ELSE LET m == CHOOSE x \in S : \A y \in S : x >= y
         IN  <<m>> \o Descending(S \ {m})

DistinctKeys(s) == \A i, j \in 1..Len(s) : i # j => s[i].matters # s[j].matters

\* C12: when the items sent have pairwise distinct keys and all the sends
\* came before the receives, the keys drained by recv_least are the start
\* of the ascending sort of the keys sent, and those drained by
\* recv_greatest the start of the descending sort, whatever the order in
\* which the sends reached the store; a complete drain is the whole sort.
C12_DrainIsTheSort ==
    (drainFrom = 0 /\ DistinctKeys(sent) /\ drainDir \in Recvs) =>
        LET all == IF drainDir = "recv_least"
                   THEN Ascending(Range(KeysOf(sent)))
                   ELSE Descending(Range(KeysOf(sent)))
        IN  /\ Len(Drain) <= Len(all)
            /\ KeysOf(Drain) = SubSeq(all, 1, Len(Drain))
            /\ queue = <<>> => KeysOf(Drain) = all

\* two items of distinct keys, the greater pushed first, drained by
\* recv_least with every thread back from its call
C12_Witness ==
    /\ drainDir = "recv_least"
    /\ drainFrom = 0
    /\ queue = <<>>
    /\ Len(sent) >= 2
    /\ DistinctKeys(sent)
    /\ sent[1].matters > sent[2].matters
    /\ \A t \in Threads : pc[t] = "idle"

\* --------------------------------------------------------------- C15
\* C15: the record a recv_* returns is one of the records sent, field for
\* field, and was pending; its key is the greatest (recv_greatest) or the
\* least (recv_least) of the pending keys, whatever the records' other
\* field; and the store only ever holds records as they were sent.
C15_KeyAloneDecides ==
    /\ Range(queue) \subseteq Range(sent)
    /\ \A t \in Threads :
        (pc[t] = "unlock" /\ op[t] \in Recvs /\ ret[t] # None) =>
            /\ ret[t][1] \in Range(sent)
            /\ ret[t][1] \in Range(entry)
            /\ \A y \in Range(entry) :
                IF op[t] = "recv_greatest"
                THEN y.matters <= ret[t][1].matters
                ELSE y.matters >= ret[t][1].matters

\* a recv_greatest returning the record of greatest key, which is the one
\* of least id among those pending
C15_Witness ==
    \E t \in Threads :
        /\ Done(t, "recv_greatest")
        /\ ret[t] # None
        /\ Len(entry) >= 2
        /\ \A y \in Range(entry) \ {ret[t][1]} :
            y.matters < ret[t][1].matters /\ y.id > ret[t][1].id

\* --------------------------------------------------------------- C18
\* the abstract multiset just before the pop of a recv_* that has popped:
\* the items inserted by the pushes so far, less those removed by the pops
\* before this one
AbstractBefore(t) ==
    LET earlier == IF ret[t] = None THEN received
                   ELSE SubSeq(received, 1, Len(received) - 1)
    IN  [x \in Range(sent) |-> Count(sent, x) - Count(earlier, x)]

\* C18: taking each call to happen at its push or pop, which lies between
\* its call and its return, the result of every recv_* is the result of
\* remove-max (recv_greatest) or remove-min (recv_least) on the abstract
\* multiset built by the pushes and pops that happened before it: None
\* when it is empty, else an item of it of greatest (least) key.
C18_Linearizable ==
    \A t \in Threads :
        (pc[t] = "unlock" /\ op[t] \in Recvs) =>
            LET A == AbstractBefore(t)
                live == {x \in DOMAIN A : A[x] > 0}
            IN  /\ \A x \in DOMAIN A : A[x] \in {0, 1}
                /\ (ret[t] = None) <=> (live = {})
                /\ ret[t] # None =>
                    /\ ret[t][1] \in live
                    /\ ret[t][1] = received[Len(received)]
                    /\ \A y \in live :
                        IF op[t] = "recv_greatest"
                        THEN y.matters <= ret[t][1].matters
                        ELSE y.matters >= ret[t][1].matters

\* a recv_least taking effect while a send and a recv_greatest of other
\* calls took effect before it and one more item is still pending
C18_Witness ==
    \E t, u \in Threads :
        /\ t # u
        /\ Done(t, "recv_least")
        /\ ret[t] # None
        /\ Len(received) >= 2
        /\ queue # <<>>
        /\ InCall(u)

\* --------------------------------------------------------------- C16
\* the steps of a call that has started, when T's cmp does not panic
CalmStep(t) ==
    \/ LockOk(t)
    \/ Push(t)
    \/ Sort(t)
    \/ Reverse(t)
    \/ Pop(t)
    \/ Return(t)

\* the channel when no thread terminates abnormally (the sends are capped
\* lower than in Next: the receives are not capped, and they are what lets
\* a behaviour go on for ever)
NextCalm ==
    \E t \in Threads :
        \/ nsends < MaxFairSends /\ CallSend(t)
        \/ CallRecv(t)
        \/ LockOk(t)
        \/ Push(t)
        \/ Sort(t)
        \/ Reverse(t)
        \/ Pop(t)
        \/ Return(t)

\* fair scheduling: a thread that can go on with its call does so in the
\* end (weak fairness), and a thread at lock() that finds the Mutex free
\* again and again gets it in the end (strong fairness: with weak fairness
\* alone a thread at lock() can be overtaken for ever by the calls of the
\* others)
FairSpec ==
    /\ Init
    /\ [][NextCalm]_vars
    /\ \A t \in Threads : WF_vars(CalmStep(t))
    /\ \A t \in Threads : SF_vars(LockOk(t))

CloneStep ==
    /\ nroots' = nroots
    /\ \E c \in HandleClasses : handles' = [handles EXCEPT ![c] = @ + 1]
DropStep == \E c \in HandleClasses : handles' = [handles EXCEPT ![c] = @ - 1]
PmpmcStep == nroots' = nroots + 1
SendStep(r) == nsent'[r] = nsent[r] + 1

\* the items in the Vec of Inner i
Pending(i) == Range(inners[i].queue)

LiveHandles == {c \in HandleClasses : Live(c)}
LiveReceivers == {c \in LiveHandles : c.kind = "receiver"}
LiveSenders == {c \in LiveHandles : c.kind = "sender"}

\* C13: a clone of a Sender or of a Receiver leaves every store as it was
\* and is one more handle on the store of the handle it was cloned from, so
\* that all the handles of one channel are on one store; an item sent on a
\* channel is then in the store of every Receiver of that channel, and an
\* item a recv_* took out is in the store of no Receiver of that channel.
C13_ClonesShareTheStore ==
    [][ /\ CloneStep =>
            /\ inners' = inners
            /\ \A c \in LiveHandles' : Live(c)
        /\ \A c, d \in LiveHandles' : c.root = d.root => c.inner = d.inner
        /\ \A r \in Roots : SendStep(r) =>
            \E k \in Keys : \A c \in LiveReceivers' :
                c.root = r => Item(k, nsent'[r]) \in Pending(c.inner)'
        /\ (handles' = handles /\ inners' # inners) =>
            \A c \in LiveReceivers : \A x \in Pending(c.inner) \ Pending(c.inner)' :
                \A d \in LiveReceivers : d.root = c.root => x \notin Pending(d.inner)'
      ]_vars

\* a Receiver and its clone on a channel whose one item was sent and taken
C13_Witness ==
    \E c \in LiveReceivers :
        /\ handles[c] >= 2
        /\ nsent[c.root] >= 1
        /\ inners[c.inner].queue = <<>>

\* C14: pmpmc() allocates an Inner nobody held, with an empty Vec, and
\* returns exactly one Sender and one Receiver on it; while nothing was sent
\* on a channel both recv_* of its Receivers return None; a send on one
\* channel leaves the store of every Receiver of another channel as it was.
C14_FreshIndependentChannel ==
    [][ /\ PmpmcStep =>
            \E i \in InnerIds :
                /\ inners[i].state = "unused"
                /\ inners' = [inners EXCEPT ![i] = NewInner]
                /\ handles' = [handles EXCEPT
                        ![[kind |-> "sender", root |-> nroots', inner |-> i]] = 1,
                        ![[kind |-> "receiver", root |-> nroots', inner |-> i]] = 1]
                /\ StrongCount(handles, i) = 0
        /\ \A c \in LiveReceivers' : nsent'[c.root] = 0 =>
            /\ ~inners'[c.inner].poisoned
            /\ HandleRecvValue(c, "recv_greatest")' = None
            /\ HandleRecvValue(c, "recv_least")' = None
        /\ \A r \in Roots : SendStep(r) =>
            \A c \in LiveReceivers : c.root # r =>
                /\ inners'[c.inner] = inners[c.inner]
                /\ HandleRecvValue(c, "recv_greatest")' = HandleRecvValue(c, "recv_greatest")
                /\ HandleRecvValue(c, "recv_least")' = HandleRecvValue(c, "recv_least")
      ]_vars

\* two channels with a Receiver each: one was sent to and holds the item,
\* nothing was ever sent on the other
C14_Witness ==
    \E c, d \in LiveReceivers :
        /\ c.root # d.root
        /\ nsent[c.root] >= 1 /\ inners[c.inner].queue # <<>>
        /\ nsent[d.root] = 0

\* the greatest and the least of the keys pending in a Vec
MaxKeyOf(q) == CHOOSE k \in Range(KeysOf(q)) : \A j \in Range(KeysOf(q)) : j <= k
MinKeyOf(q) == CHOOSE k \in Range(KeysOf(q)) : \A j \in Range(KeysOf(q)) : k <= j

\* C17: an Inner lives exactly while some handle, Sender or Receiver, is on
\* it; a drop that leaves a handle on an Inner leaves its Vec as it was, the
\* drop of the last Sender included; a Receiver with no Sender left can
\* still call recv_*, which returns None on an empty Vec and an item of the
\* greatest (least) pending key otherwise.
C17_NoClosedState ==
    /\ [][ DropStep =>
            \A i \in InnerIds : StrongCount(handles', i) > 0 => inners'[i] = inners[i]
         ]_vars
    /\ [](\A i \in InnerIds : inners[i].state = "live" <=> StrongCount(handles, i) > 0)
    /\ [](\A c \in LiveReceivers :
            ((\A s \in LiveSenders : s.root # c.root) /\ ~inners[c.inner].poisoned) =>
                LET q == inners[c.inner].queue IN
                /\ ENABLED HandleRecv(c)
                /\ IF q = <<>>
                   THEN /\ HandleRecvValue(c, "recv_greatest") = None
                        /\ HandleRecvValue(c, "recv_least") = None
                   ELSE /\ \E x \in Range(q) : /\ x.matters = MaxKeyOf(q)
                                               /\ HandleRecvValue(c, "recv_greatest") = Some(x)
                        /\ \E x \in Range(q) : /\ x.matters = MinKeyOf(q)
                                               /\ HandleRecvValue(c, "recv_least") = Some(x))

\* a Receiver whose channel has no Sender left and still holds two items
\* sent before the last Sender was dropped
C17_Witness ==
    \E c \in LiveReceivers :
        /\ \A s \in LiveSenders : s.root # c.root
        /\ ~inners[c.inner].poisoned
        /\ Len(inners[c.inner].queue) = 2

====
